---- MODULE Spec2Model ----
(***************************************************************************)
(* Model of src/main.py: an FTP mirror that keeps one row per remote file  *)
(* in the SQLite table "videos" and drives deletions and downloads from    *)
(* the rows' status.                                                       *)
(*                                                                         *)
(* The durable table (disk) and the connection's view of it (db, which     *)
(* also holds uncommitted writes) are separate: conn.commit() copies db to *)
(* disk, conn.close() and the end of the process discard what was not      *)
(* committed.                                                              *)
(***************************************************************************)
EXTENDS Integers, Sequences, FiniteSets, TLC

\* ---------------------------------------------------------------- bounds
MaxRuns == 3      \* how often the program is started
MaxEnv  == 2      \* changes of the remote directory / local directory between runs

\* ------------------------------------------------------- program constants
NOT_DOWNLOADED == 0
DOWNLOADED     == 1
UPDATED        == 2
DELETED        == 3

\* File names the FTP server may list.  "7" is a name that is a well-formed
\* integer literal; the others are not.
Names == {"7", "a", "b", "c"}
NumericLiterals == {"7"}
\* Sizes of remote files.  The program only compares a size with the stored
\* one for equality, so two values show every case.
Sizes == {1, 2}

\* The column video_id is declared STRING, which SQLite gives NUMERIC
\* affinity: a text value that is a well-formed integer literal is stored
\* (and compared, and returned to Python) as an integer, any other text
\* stays text.
video_id_affinity(name) ==
    IF name \in NumericLiterals THEN [type |-> "int", text |-> name]
                                ELSE [type |-> "str", text |-> name]

Keys == {video_id_affinity(n) : n \in Names}

\* ORDER BY video_id ASC: integers sort before text, text in byte order.
KeyOrder == <<video_id_affinity("7"), video_id_affinity("a"),
              video_id_affinity("b"), video_id_affinity("c")>>

\* The order in which the server lists names.
NameLess(m, n) ==
    \E x, y \in 1..Len(KeyOrder) :
        x < y /\ KeyOrder[x].text = m /\ KeyOrder[y].text = n

\* Python's `row["video_id"] in <list of str>`: an int equals no str.
PyIn(key, names) == key.type = "str" /\ key.text \in names

\* os.path.join(DIR, row["video_id"]) raises TypeError unless it is a str.
JoinRaisesTypeError(key) == key.type # "str"

VARIABLES
    remote,        \* the server's directory: [present names -> size]
    localDir,      \* LOCAL_DIR: [present names -> size of the local file]
    dirExists,     \* the directory LOCAL_DIR exists
    disk,          \* committed rows of table videos: [keys -> row]
    db,            \* rows as seen through conn (committed + uncommitted)
    connOpen,      \* conn has not been closed
    pc,            \* position of the process
    iter,          \* iteration of the `while True` loop in this process
    remote_files,  \* the listing this pass read: [names -> size]
    rows,          \* rows fetched at the start of mirror_ftp_directory
    i,             \* index into rows of the row being processed
    err,           \* how the pass ended ("none": still running / normally)
    runs,          \* number of program starts so far
    env,           \* number of environment changes so far
    \* history of the current pass
    startDisk,     \* disk when the pass began
    delTried,      \* keys whose os.remove was attempted
    opened,        \* keys whose local file open(..., "wb") was attempted
    succeeded,     \* keys whose transfer completed and was recorded
    failed,        \* keys whose transfer raised a caught error
    \* history of the rows
    everDownloaded \* keys whose present row has been DOWNLOADED at some time

vars == <<remote, localDir, dirExists, disk, db, connOpen, pc, iter,
          remote_files, rows, i, err, runs, env,
          startDisk, delTried, opened, succeeded, failed, everDownloaded>>

hist == <<startDisk, delTried, opened, succeeded, failed>>

Empty == [x \in {} |-> 0]

Row(st, sz) == [video_status |-> st, video_remote_size |-> sz]

\* The size every file of the first listing has.  A size is only compared
\* with the size stored for the same file, so which of the two sizes a file
\* starts with makes no difference; RemotePut changes it later.
InitialSize == CHOOSE s \in Sizes : \A t \in Sizes : s <= t

\* All partial functions from subsets of S to T.
PartialFns(S, T) == UNION {[D -> T] : D \in SUBSET S}

Init ==
    /\ remote \in PartialFns(Names, {InitialSize})
    /\ localDir = Empty
    /\ dirExists = TRUE
    /\ disk = Empty
    /\ db = Empty
    /\ connOpen = FALSE
    /\ pc = "off"
    /\ iter = 0
    /\ remote_files = Empty
    /\ rows = <<>>
    /\ i = 1
    /\ err = "none"
    /\ runs = 0
    /\ env = 0
    /\ startDisk = Empty
    /\ delTried = {}
    /\ opened = {}
    /\ succeeded = {}
    /\ failed = {}
    /\ everDownloaded = {}


\* ------------------------------------------------------------ table helpers
Put(f, k, v) == [x \in DOMAIN f \cup {k} |-> IF x = k THEN v ELSE f[x]]

Drop(f, k) == [x \in DOMAIN f \ {k} |-> f[x]]

\* UPDATE videos SET video_status = st WHERE video_id = k (no row: no effect)
SetStatus(d, k, st) ==
    IF k \in DOMAIN d THEN [d EXCEPT ![k].video_status = st] ELSE d

\* Variant of ScanRemoteEntry: a changed size is stored without setting the
\* status to UPDATED.
ScanRemoteEntry_KeepsStatus(d, name, size) ==
    LET k == video_id_affinity(name) IN
    IF k \notin DOMAIN d
    THEN Put(d, k, Row(NOT_DOWNLOADED, size))
    ELSE IF size # d[k].video_remote_size
         THEN [d EXCEPT ![k].video_remote_size = size]
         ELSE d

\* Variant of ScanRemoteEntry: a changed size sets UPDATED only on a row
\* that is DOWNLOADED; another row keeps its status and gets the new size.
ScanRemoteEntry_UpdatedIfDownloaded(d, name, size) ==
    LET k == video_id_affinity(name) IN
    IF k \notin DOMAIN d
    THEN Put(d, k, Row(NOT_DOWNLOADED, size))
    ELSE IF size # d[k].video_remote_size
         THEN IF d[k].video_status = DOWNLOADED
              THEN [d EXCEPT ![k] = Row(UPDATED, size)]
              ELSE [d EXCEPT ![k].video_remote_size = size]
         ELSE d

\* --------------------------------------------------------------- scan_remote
\* One iteration of the loop over remote_files (lines 30-45).
ScanRemoteEntry(d, name, size) ==
    LET k == video_id_affinity(name) IN
    IF k \notin DOMAIN d
    THEN Put(d, k, Row(NOT_DOWNLOADED, size))
    ELSE IF size # d[k].video_remote_size
         THEN [d EXCEPT ![k] = Row(UPDATED, size)]
         ELSE d

\* The loop over the entries S of the listing.
RECURSIVE ScanRemoteLoop(_, _, _)
ScanRemoteLoop(d, listing, S) ==
    IF S = {} THEN d
    ELSE LET n == CHOOSE x \in S : TRUE
         IN  ScanRemoteLoop(ScanRemoteEntry(d, n, listing[n]), listing, S \ {n})

\* Variant of MarkDeleted: the row's status is not looked at.
MarkDeleted_AnyStatus(d, names) ==
    [k \in DOMAIN d |->
        IF ~PyIn(k, names)
        THEN [d[k] EXCEPT !.video_status = DELETED]
        ELSE d[k]]

\* Variant of MarkDeleted: the membership test is inverted.
MarkDeleted_Inverted(d, names) ==
    [k \in DOMAIN d |->
        IF d[k].video_status = DOWNLOADED /\ PyIn(k, names)
        THEN [d[k] EXCEPT !.video_status = DELETED]
        ELSE d[k]]

\* Lines 48-57: every DOWNLOADED row whose id is not in remote_files.
MarkDeleted(d, names) ==
    [k \in DOMAIN d |->
        IF d[k].video_status = DOWNLOADED /\ ~PyIn(k, names)
        THEN [d[k] EXCEPT !.video_status = DELETED]
        ELSE d[k]]

\* Variant of ResetMissing: the row of a vanished local file is marked
\* DELETED.
ResetMissing_MarksDeleted(d, localNames) ==
    [k \in DOMAIN d |->
        IF d[k].video_status = DOWNLOADED /\ ~PyIn(k, localNames)
        THEN [d[k] EXCEPT !.video_status = DELETED]
        ELSE d[k]]

\* ---------------------------------------------------------------- scan_local
\* Lines 67-82: every DOWNLOADED row whose id is not a local file name.
ResetMissing(d, localNames) ==
    [k \in DOMAIN d |->
        IF d[k].video_status = DOWNLOADED /\ ~PyIn(k, localNames)
        THEN [d[k] EXCEPT !.video_status = NOT_DOWNLOADED]
        ELSE d[k]]

\* ----------------------------------------------------------- preview_changes
ActionOf(st) ==
    IF st = NOT_DOWNLOADED THEN "Download"
    ELSE IF st = DELETED THEN "Delete"
    ELSE IF st = UPDATED THEN "Update"
    ELSE "None"

\* The table preview_changes builds: one <<action, video_id>> per row that
\* is not DOWNLOADED, in ORDER BY video_id ASC.
PreviewTable(d) ==
    LET ks == SelectSeq(KeyOrder,
                 LAMBDA k : k \in DOMAIN d /\ ActionOf(d[k].video_status) # "None")
    IN  [j \in 1..Len(ks) |-> <<ActionOf(d[ks[j]].video_status), ks[j]>>]

\* ------------------------------------------------------ mirror_ftp_directory
PullStatuses == {NOT_DOWNLOADED, UPDATED}

\* The SELECT at lines 141-145.
SelectRows(d) ==
    LET ks == SelectSeq(KeyOrder,
                 LAMBDA k : k \in DOMAIN d
                            /\ d[k].video_status \in {NOT_DOWNLOADED, DELETED, UPDATED})
    IN  [j \in 1..Len(ks) |->
            [video_id |-> ks[j],
             video_status |-> d[ks[j]].video_status,
             video_remote_size |-> d[ks[j]].video_remote_size]]

\* Smallest index >= from of a row whose status is in sts; Len+1 if none.
NextRow(rws, from, sts) ==
    LET c == {j \in from..Len(rws) : rws[j].video_status \in sts}
    IN  IF c = {} THEN Len(rws) + 1
        ELSE CHOOSE j \in c : \A m \in c : j <= m

\* A single loop over rows that deletes or transfers each row as it comes.
NextStep_OneLoop(rws, phase, j) ==
    IF j + 1 > Len(rws) THEN [pc |-> "finally", i |-> Len(rws) + 1]
    ELSE [pc |-> IF rws[j + 1].video_status = DELETED
                 THEN "mirror_delete" ELSE "mirror_transfer",
          i |-> j + 1]

\* Where mirror_ftp_directory continues after row j of the loop `phase`
\* ("start": before the first loop): the rest of the deletion loop
\* (lines 149-159), then the transfer loop (lines 171-194), then return.
NextStep(rws, phase, j) ==
    LET d == IF phase \in {"start", "mirror_delete"}
             THEN NextRow(rws, j + 1, {DELETED}) ELSE Len(rws) + 1
        t == IF phase = "mirror_transfer"
             THEN NextRow(rws, j + 1, PullStatuses)
             ELSE NextRow(rws, 1, PullStatuses)
    IN  IF d <= Len(rws) THEN [pc |-> "mirror_delete", i |-> d]
        ELSE IF t <= Len(rws) THEN [pc |-> "mirror_transfer", i |-> t]
        ELSE [pc |-> "finally", i |-> Len(rws) + 1]

\* What the transfer writes into the opened local file: the callback given
\* to retrbinary (lines 161-168) only counts and prints the bytes of each
\* block, it never writes them, so the file keeps the length open(.., "wb")
\* gave it.
BytesWritten(remoteSize) == 0

\* ------------------------------------------------------------------ __main__
\* Between passes nothing is remembered of the last one: the locals of the
\* pass are gone and the history variables start afresh.
ResetPass ==
    /\ startDisk' = disk
    /\ delTried' = {}
    /\ opened' = {}
    /\ succeeded' = {}
    /\ failed' = {}
    /\ remote_files' = Empty
    /\ rows' = <<>>
    /\ i' = 1
    /\ err' = "none"

\* The program is started: lines 201-216 open the database, lines 241-251
\* read the configuration, line 260 enters the loop.  The flag PREVIEW_MODE
\* read at line 250 is first used at lines 275 and 281; it is drawn there.
Start ==
    /\ pc = "off"
    /\ runs < MaxRuns
    /\ runs' = runs + 1
    /\ db' = disk
    /\ connOpen' = TRUE
    /\ iter' = 1
    /\ pc' = "connect"
    /\ ResetPass
    /\ UNCHANGED <<dirExists, everDownloaded, remote, localDir, disk, env>>

\* Lines 263-269: the FTP session is set up.
Connect ==
    /\ pc = "connect"
    /\ pc' = "scan_remote"
    /\ UNCHANGED <<dirExists, everDownloaded, remote, localDir, disk, db, connOpen, iter,
                   remote_files, rows, i, err, runs, env, hist>>

\* Lines 283-285: connect, login or cwd raised an ftplib error.
ConnectError ==
    /\ pc = "connect"
    /\ err' = "ftp"
    /\ pc' = "finally"
    /\ UNCHANGED <<dirExists, everDownloaded, remote, localDir, disk, db, connOpen, iter,
                   remote_files, rows, i, runs, env, hist>>

\* scan_remote ran to its end.
ScanRemote ==
    /\ pc = "scan_remote"
    /\ connOpen
    /\ remote_files' = remote
    /\ db' = MarkDeleted(ScanRemoteLoop(db, remote, DOMAIN remote), DOMAIN remote)
    /\ disk' = db'
    /\ pc' = "scan_local"
    /\ UNCHANGED <<dirExists, everDownloaded, remote, localDir, connOpen, iter, rows, i, err,
                   runs, env, hist>>

\* The entries of the listing that come before entry number j (the server
\* lists its names in order).
Before(listing, j) ==
    {n \in DOMAIN listing : Cardinality({m \in DOMAIN listing : NameLess(m, n)}) < j - 1}

\* Variant of ScanRemoteListingError: every entry is committed as it is
\* written.
ScanRemoteListingError_Commits(j) ==
    /\ pc = "scan_remote"
    /\ j <= Cardinality(DOMAIN remote)
    /\ (j > 1) => connOpen
    /\ db' = ScanRemoteLoop(db, remote, Before(remote, j))
    /\ disk' = db'
    /\ err' = "listing"
    /\ pc' = "finally"
    /\ UNCHANGED <<dirExists, everDownloaded, remote, localDir, connOpen, iter,
                   remote_files, rows, i, runs, env, hist>>

\* nlst raised (j = 0), or the size query of entry number j raised after
\* the entries before it were processed: line 46 is not reached, lines
\* 59-61 exit the process.
ScanRemoteListingError(j) ==
    /\ pc = "scan_remote"
    /\ j <= Cardinality(DOMAIN remote)
    /\ (j > 1) => connOpen
    /\ db' = ScanRemoteLoop(db, remote, Before(remote, j))
    /\ err' = "listing"
    /\ pc' = "finally"
    /\ UNCHANGED <<dirExists, everDownloaded, remote, localDir, disk, connOpen, iter,
                   remote_files, rows, i, runs, env, hist>>

\* The listing was read, but conn is closed: the first cur.execute or
\* conn.commit raises sqlite3.ProgrammingError, lines 59-61 exit the process.
ScanRemoteDbError ==
    /\ pc = "scan_remote"
    /\ ~connOpen
    /\ remote_files' = remote
    /\ err' = "db_closed"
    /\ pc' = "finally"
    /\ UNCHANGED <<dirExists, everDownloaded, remote, localDir, disk, db, connOpen, iter,
                   rows, i, runs, env, hist>>

\* get_local_paths (lines 88-99): the names of the files in LOCAL_DIR, none
\* when the directory does not exist.
get_local_paths == IF ~dirExists THEN {} ELSE DOMAIN localDir

\* Variant of ScanLocal: a missing LOCAL_DIR is an error that ends the pass.
ScanLocal_MissingDirFails ==
    /\ pc = "scan_local"
    /\ IF dirExists
       THEN /\ db' = ResetMissing(db, get_local_paths)
            /\ pc' = "preview"
            /\ err' = err
       ELSE /\ db' = db
            /\ pc' = "finally"
            /\ err' = "local"
    /\ UNCHANGED <<dirExists, everDownloaded, remote, localDir, disk, connOpen, iter,
                   remote_files, rows, i, runs, env, hist>>

\* scan_local: the writes are not committed.
ScanLocal ==
    /\ pc = "scan_local"
    /\ db' = ResetMissing(db, get_local_paths)
    /\ pc' = "preview"
    /\ UNCHANGED <<dirExists, everDownloaded, remote, localDir, disk, connOpen, iter,
                   remote_files, rows, i, err, runs, env, hist>>

\* preview_changes printed the table; the operator (in PREVIEW_MODE) agreed;
\* mirror_ftp_directory fetches its rows.
PreviewCommit ==
    /\ pc = "preview"
    /\ rows' = SelectRows(db)
    /\ LET n == NextStep(rows', "start", 0)
       IN  pc' = n.pc /\ i' = n.i
    /\ UNCHANGED <<dirExists, everDownloaded, remote, localDir, disk, db, connOpen, iter,
                   remote_files, err, runs, env, hist>>

\* The values PREVIEW_MODE can have in this iteration: the loop goes round
\* only when it is false (lines 281-282).
PreviewModes == IF iter = 1 THEN BOOLEAN ELSE {FALSE}

\* Lines 275-278: PREVIEW_MODE is set and the operator did not answer "y".
PreviewDecline ==
    /\ pc = "preview"
    /\ TRUE \in PreviewModes
    /\ err' = "declined"
    /\ pc' = "finally"
    /\ UNCHANGED <<dirExists, everDownloaded, remote, localDir, disk, db, connOpen, iter,
                   remote_files, rows, i, runs, env, hist>>

\* Lines 150-157: os.remove succeeded, the row is deleted and committed.
DeleteOK ==
    /\ pc = "mirror_delete"
    /\ LET k == rows[i].video_id
           n == NextStep(rows, "mirror_delete", i)
       IN  /\ ~JoinRaisesTypeError(k)
           /\ k.text \in DOMAIN localDir
           /\ localDir' = Drop(localDir, k.text)
           /\ db' = Drop(db, k)
           /\ disk' = db'
           /\ delTried' = delTried \cup {k}
           /\ everDownloaded' = everDownloaded \ {k}
           /\ pc' = n.pc /\ i' = n.i
    /\ UNCHANGED <<dirExists, remote, connOpen, iter, remote_files, rows,
                   err, runs, env, startDisk, opened, succeeded, failed>>

\* Variant of DeleteError: the row is deleted and committed although
\* os.remove raised.
DeleteError_DropsRow ==
    /\ pc = "mirror_delete"
    /\ LET k == rows[i].video_id
           n == NextStep(rows, "mirror_delete", i)
       IN  /\ ~JoinRaisesTypeError(k)
           /\ db' = Drop(db, k)
           /\ disk' = db'
           /\ delTried' = delTried \cup {k}
           /\ pc' = n.pc /\ i' = n.i
    /\ UNCHANGED <<dirExists, everDownloaded, remote, localDir, connOpen, iter,
                   remote_files, rows, err, runs, env,
                   startDisk, opened, succeeded, failed>>

\* Variant of DeleteError: the error ends mirror_ftp_directory.
DeleteError_Abort ==
    /\ pc = "mirror_delete"
    /\ LET k == rows[i].video_id
       IN  /\ ~JoinRaisesTypeError(k)
           /\ delTried' = delTried \cup {k}
           /\ pc' = "finally" /\ i' = Len(rows) + 1
    /\ UNCHANGED <<dirExists, everDownloaded, remote, localDir, disk, db, connOpen, iter,
                   remote_files, rows, err, runs, env,
                   startDisk, opened, succeeded, failed>>

\* Lines 158-159: os.remove raised OSError (no such file, or not permitted).
DeleteError ==
    /\ pc = "mirror_delete"
    /\ LET k == rows[i].video_id
           n == NextStep(rows, "mirror_delete", i)
       IN  /\ ~JoinRaisesTypeError(k)
           /\ delTried' = delTried \cup {k}
           /\ pc' = n.pc /\ i' = n.i
    /\ UNCHANGED <<dirExists, everDownloaded, remote, localDir, disk, db, connOpen, iter,
                   remote_files, rows, err, runs, env,
                   startDisk, opened, succeeded, failed>>

\* Lines 176-192: the file was opened, retrbinary returned, the row is set
\* to DOWNLOADED and committed.
TransferOK ==
    /\ pc = "mirror_transfer"
    /\ LET k == rows[i].video_id
           n == NextStep(rows, "mirror_transfer", i)
       IN  /\ ~JoinRaisesTypeError(k)
           /\ dirExists
           /\ k.text \in DOMAIN remote
           /\ localDir' = Put(localDir, k.text, BytesWritten(remote[k.text]))
           /\ db' = SetStatus(db, k, DOWNLOADED)
           /\ disk' = db'
           /\ opened' = opened \cup {k}
           /\ succeeded' = succeeded \cup {k}
           /\ everDownloaded' = everDownloaded \cup {k}
           /\ pc' = n.pc /\ i' = n.i
    /\ UNCHANGED <<dirExists, remote, connOpen, iter, remote_files, rows,
                   err, runs, env, startDisk, delTried, failed>>

\* Line 180 raised OSError: no file is created; lines 193-194 log it.
TransferOpenError ==
    /\ pc = "mirror_transfer"
    /\ LET k == rows[i].video_id
           n == NextStep(rows, "mirror_transfer", i)
       IN  /\ ~JoinRaisesTypeError(k)
           /\ failed' = failed \cup {k}
           /\ pc' = n.pc /\ i' = n.i
    /\ UNCHANGED <<dirExists, everDownloaded, remote, localDir, disk, db, connOpen, iter,
                   remote_files, rows, err, runs, env,
                   startDisk, delTried, opened, succeeded>>

\* Variant of TransferRetrError: the error ends the transfer loop.
TransferRetrError_Abort ==
    /\ pc = "mirror_transfer"
    /\ LET k == rows[i].video_id
       IN  /\ ~JoinRaisesTypeError(k)
           /\ dirExists
           /\ localDir' = Put(localDir, k.text, 0)
           /\ opened' = opened \cup {k}
           /\ failed' = failed \cup {k}
           /\ pc' = "finally" /\ i' = Len(rows) + 1
    /\ UNCHANGED <<dirExists, everDownloaded, remote, disk, db, connOpen, iter,
                   remote_files, rows, err, runs, env,
                   startDisk, delTried, succeeded>>

\* Line 180 created (or truncated) the file, then retrbinary raised (the
\* connection dropped, or the server has no such file); lines 193-194 log it.
TransferRetrError ==
    /\ pc = "mirror_transfer"
    /\ LET k == rows[i].video_id
           n == NextStep(rows, "mirror_transfer", i)
       IN  /\ ~JoinRaisesTypeError(k)
           /\ dirExists
           /\ localDir' = Put(localDir, k.text, 0)
           /\ opened' = opened \cup {k}
           /\ failed' = failed \cup {k}
           /\ pc' = n.pc /\ i' = n.i
    /\ UNCHANGED <<dirExists, everDownloaded, remote, disk, db, connOpen, iter,
                   remote_files, rows, err, runs, env,
                   startDisk, delTried, succeeded>>

\* Ctrl+C while retrbinary runs (lines 181-184): line 180 has created (or
\* truncated) the file; KeyboardInterrupt is not among ftplib.all_errors, so
\* neither line 193 nor line 283 catches it, lines 185-189 are skipped, the
\* finally clause of the pass runs and line 293 ends the program.
TransferInterrupt ==
    /\ pc = "mirror_transfer"
    /\ LET k == rows[i].video_id
       IN  /\ ~JoinRaisesTypeError(k)
           /\ dirExists
           /\ localDir' = Put(localDir, k.text, 0)
           /\ opened' = opened \cup {k}
           /\ err' = "KeyboardInterrupt"
           /\ pc' = "finally"
    /\ UNCHANGED <<dirExists, everDownloaded, remote, disk, db, connOpen, iter,
                   remote_files, rows, i, runs, env,
                   startDisk, delTried, succeeded, failed>>

\* Lines 151 and 176-177 are outside the try blocks: os.path.join raises
\* TypeError for a video_id that is not a str, and nothing catches it before
\* the finally clause of the pass.
MirrorTypeError ==
    /\ pc \in {"mirror_delete", "mirror_transfer"}
    /\ JoinRaisesTypeError(rows[i].video_id)
    /\ err' = "TypeError"
    /\ pc' = "finally"
    /\ UNCHANGED <<dirExists, everDownloaded, remote, localDir, disk, db, connOpen, iter,
                   remote_files, rows, i, runs, env, hist>>

\* conn.close() at line 291: uncommitted writes are dropped.
CloseConn ==
    /\ db' = disk
    /\ connOpen' = FALSE

\* Lines 286-291 on the way out of the loop: the pass raised (sys.exit, an
\* FTP error, TypeError), or it ended and PREVIEW_MODE is set (line 282).
\* The process ends.
FinallyExit ==
    /\ pc = "finally"
    /\ err # "none" \/ TRUE \in PreviewModes
    /\ CloseConn
    /\ pc' = "off"
    /\ iter' = 0
    /\ ResetPass
    /\ UNCHANGED <<dirExists, everDownloaded, remote, localDir, disk, runs, env>>

\* Lines 286-292 when the pass ended and PREVIEW_MODE is not set: the
\* connections are closed and the process sleeps.
FinallySleep ==
    /\ pc = "finally"
    /\ err = "none"
    /\ CloseConn
    /\ pc' = "sleep"
    /\ ResetPass
    /\ UNCHANGED <<dirExists, everDownloaded, remote, localDir, disk, iter, runs, env>>

\* Line 292 returned: the next iteration of `while True`.
Sleep ==
    /\ pc = "sleep"
    /\ iter' = iter + 1
    /\ pc' = "connect"
    /\ UNCHANGED <<dirExists, everDownloaded, remote, localDir, disk, db, connOpen,
                   remote_files, rows, i, err, runs, env, hist>>

\* Ctrl+C during time.sleep (line 292): line 293 ends the program; the
\* connection was closed at line 291.
SleepInterrupt ==
    /\ pc = "sleep"
    /\ pc' = "off"
    /\ iter' = 0
    /\ UNCHANGED <<dirExists, everDownloaded, remote, localDir, disk, db, connOpen,
                   remote_files, rows, i, err, runs, env, hist>>

\* -------------------------------------------------------------- environment
\* Between runs of the program the server's directory and the local
\* directory change (before the first run Init already chooses the server's
\* directory).
RemotePut(n, s) ==
    /\ pc = "off" /\ env < MaxEnv /\ runs >= 1 /\ runs < MaxRuns
    /\ IF n \in DOMAIN remote THEN remote[n] # s ELSE TRUE
    /\ remote' = Put(remote, n, s)
    /\ env' = env + 1
    /\ UNCHANGED <<dirExists, everDownloaded, localDir, disk, db, connOpen, pc, iter,
                   remote_files, rows, i, err, runs, hist>>

RemoteRemove(n) ==
    /\ pc = "off" /\ env < MaxEnv /\ runs >= 1 /\ runs < MaxRuns
    /\ n \in DOMAIN remote
    /\ remote' = Drop(remote, n)
    /\ env' = env + 1
    /\ UNCHANGED <<dirExists, everDownloaded, localDir, disk, db, connOpen, pc, iter,
                   remote_files, rows, i, err, runs, hist>>

LocalRemove(n) ==
    /\ pc = "off" /\ env < MaxEnv /\ runs >= 1 /\ runs < MaxRuns
    /\ n \in DOMAIN localDir
    /\ localDir' = Drop(localDir, n)
    /\ env' = env + 1
    /\ UNCHANGED <<dirExists, everDownloaded, remote, disk, db, connOpen, pc, iter,
                   remote_files, rows, i, err, runs, hist>>

\* LOCAL_DIR is removed with everything in it.
LocalDirRemove ==
    /\ pc = "off" /\ env < MaxEnv /\ runs >= 1 /\ runs < MaxRuns
    /\ dirExists
    /\ dirExists' = FALSE
    /\ localDir' = Empty
    /\ env' = env + 1
    /\ UNCHANGED <<everDownloaded, remote, disk, db, connOpen, pc, iter,
                   remote_files, rows, i, err, runs, hist>>

Next ==
    \/ Start
    \/ Connect
    \/ ConnectError
    \/ ScanRemote
    \/ \E j \in 0..Cardinality(Names) : ScanRemoteListingError(j)
    \/ ScanRemoteDbError
    \/ ScanLocal
    \/ PreviewCommit
    \/ PreviewDecline
    \/ DeleteOK
    \/ DeleteError
    \/ TransferOK
    \/ TransferOpenError
    \/ TransferRetrError
    \/ TransferInterrupt
    \/ MirrorTypeError
    \/ FinallyExit
    \/ FinallySleep
    \/ Sleep
    \/ SleepInterrupt
    \/ \E n \in Names, s \in Sizes : RemotePut(n, s)
    \/ \E n \in Names : RemoteRemove(n)
    \/ \E n \in Names : LocalRemove(n)
    \/ LocalDirRemove

Spec == Init /\ [][Next]_vars

\* ===================================================================== claims
\* States in which mirror_ftp_directory has returned and the finally clause
\* of the pass is about to run.
MirrorReturned == pc = "finally" /\ err = "none"

\* The pass has gone through scan_remote and scan_local; preview_changes is
\* about to print the plan.
Reconciled == pc = "preview"

Plan == PreviewTable(db)

\* The entries of the plan that are about key k.
PlanFor(k) == SelectSeq(Plan, LAMBDA e : e[2] = k)

DownloadedAtStart(k) ==
    k \in DOMAIN startDisk /\ startDisk[k].video_status = DOWNLOADED

\* C1 (as claimed): from an empty store, when a pass is over (mirroring
\* returned or ended the pass) and no transfer of it failed, every name of
\* the listing has a durable row with status DOWNLOADED and the listed size.
C1_Convergence ==
    (pc = "finally" /\ err \in {"none", "TypeError"}
        /\ startDisk = Empty /\ failed = {})
    => \A n \in DOMAIN remote_files :
          LET k == video_id_affinity(n) IN
          /\ k \in DOMAIN disk
          /\ disk[k] = Row(DOWNLOADED, remote_files[n])

\* C2 (as claimed): when mirroring has returned, every file whose transfer
\* failed in the pass has a durable row with status NOT_DOWNLOADED or
\* UPDATED, so that the next pass plans it again.
C2_RetryAfterFailure ==
    MirrorReturned
    => \A k \in failed :
          k \in DOMAIN disk /\ disk[k].video_status \in PullStatuses

\* C3: when mirroring has returned, every transfer that succeeded left its
\* row DOWNLOADED (in the connection and durably), every row whose transfer
\* failed is as it was when mirroring began (status and size), and every
\* Download/Update row was attempted, also those after a failed one.
C3_PartialFailureIsolation ==
    MirrorReturned
    => /\ \A k \in succeeded :
             /\ k \in DOMAIN db /\ db[k].video_status = DOWNLOADED
             /\ k \in DOMAIN disk /\ disk[k].video_status = DOWNLOADED
       /\ \A j \in 1..Len(rows) :
             LET k == rows[j].video_id
                 before == Row(rows[j].video_status, rows[j].video_remote_size)
             IN  k \in failed
                 => /\ k \in DOMAIN db /\ db[k] = before
                    /\ succeeded # {} => (k \in DOMAIN disk /\ disk[k] = before)
       /\ \A j \in 1..Len(rows) :
             rows[j].video_status \in PullStatuses
             => rows[j].video_id \in succeeded \cup failed

\* C3 witness: a batch in which a transfer failed between two that succeeded.
C3_Witness ==
    /\ MirrorReturned
    /\ \E a, b, c \in 1..Len(rows) :
          /\ a < b /\ b < c
          /\ rows[a].video_id \in succeeded
          /\ rows[b].video_id \in failed
          /\ rows[c].video_id \in succeeded

\* A row that was DOWNLOADED when the pass began, whose file is not in the
\* local directory and whose name is in the listing of the pass.
Drifted(k) ==
    /\ DownloadedAtStart(k)
    /\ k.text \notin DOMAIN localDir
    /\ k.text \in DOMAIN remote_files

\* C4 (as claimed): after reconciliation every drifted row has status
\* NOT_DOWNLOADED and is planned as exactly one Download.
C4_LocalDriftDownload ==
    Reconciled
    => \A k \in Keys :
          Drifted(k)
          => /\ db[k].video_status = NOT_DOWNLOADED
             /\ PlanFor(k) = << <<"Download", k>> >>

\* C4 (amended): after reconciliation every drifted row is planned as
\* exactly one pull action and never as a Delete: a Download (status
\* NOT_DOWNLOADED) when the listed size equals the stored one, an Update
\* (status UPDATED) when it differs.
C4_LocalDriftPull ==
    Reconciled
    => \A k \in Keys :
          Drifted(k)
          => IF remote_files[k.text] = startDisk[k].video_remote_size
             THEN /\ db[k].video_status = NOT_DOWNLOADED
                  /\ PlanFor(k) = << <<"Download", k>> >>
             ELSE /\ db[k].video_status = UPDATED
                  /\ PlanFor(k) = << <<"Update", k>> >>

\* C4 witness: a drifted row of unchanged size has been reconciled.
C4_Witness ==
    /\ Reconciled
    /\ \E k \in Keys :
          /\ Drifted(k)
          /\ remote_files[k.text] = startDisk[k].video_remote_size

\* A row that was DOWNLOADED when the pass began and whose name is listed
\* with another size than the stored one.
Resized(k) ==
    /\ DownloadedAtStart(k)
    /\ k.text \in DOMAIN remote_files
    /\ remote_files[k.text] # startDisk[k].video_remote_size

\* C5: after reconciliation every resized row has status UPDATED and the
\* listed size, and the plan holds exactly one entry for it, an Update.
C5_ResizeDetection ==
    Reconciled
    => \A k \in Keys :
          Resized(k)
          => /\ db[k] = Row(UPDATED, remote_files[k.text])
             /\ disk[k] = Row(UPDATED, remote_files[k.text])
             /\ PlanFor(k) = << <<"Update", k>> >>

\* C5 witness: a resized row has been reconciled.
C5_Witness == Reconciled /\ \E k \in Keys : Resized(k)

\* Every row was DOWNLOADED when the pass began, the listing holds exactly
\* the recorded names with the recorded sizes, and every recorded file is in
\* the local directory.
FullySynced ==
    /\ \A k \in DOMAIN startDisk :
          /\ startDisk[k].video_status = DOWNLOADED
          /\ k.text \in DOMAIN remote_files
          /\ remote_files[k.text] = startDisk[k].video_remote_size
          /\ k.text \in DOMAIN localDir
    /\ \A n \in DOMAIN remote_files : video_id_affinity(n) \in DOMAIN startDisk

\* C6: reconciling a fully synced store changes no row, neither in the
\* connection nor durably, and plans nothing; in every pass.
C6_Idempotence ==
    (Reconciled /\ FullySynced)
    => /\ db = startDisk
       /\ disk = startDisk
       /\ Plan = <<>>

\* C6 witness: a later run reconciled a fully synced, non-empty store.
C6_Witness ==
    Reconciled /\ FullySynced /\ startDisk # Empty /\ runs >= 2

\* C7: once a local file of a Download/Update has been opened (or its open
\* attempted), os.remove has been attempted for every DELETED row of the
\* pass.
C7_DeletionOrdering ==
    (opened \cup failed # {} \/ pc = "mirror_transfer")
    => \A j \in 1..Len(rows) :
          rows[j].video_status = DELETED => rows[j].video_id \in delTried

\* C7 witness: a pass with a DELETED row has opened a local file.
C7_Witness ==
    /\ opened # {}
    /\ \E j \in 1..Len(rows) : rows[j].video_status = DELETED

\* C8 (as claimed): a row set to DOWNLOADED by a transfer of this pass has a
\* local file whose size is the row's video_remote_size.
C8_LocalCopyMatches ==
    \A k \in succeeded :
        (k \in DOMAIN db /\ db[k].video_status = DOWNLOADED)
        => /\ k.text \in DOMAIN localDir
           /\ localDir[k.text] = db[k].video_remote_size

\* C9 (as claimed): a second or later iteration of the loop is not ended by
\* scan_remote failing on the store; it reconciles and mirrors as the first.
C9_RepeatedPasses ==
    (pc = "finally" /\ iter >= 2) => err # "db_closed"

\* C10: when the listing could not be read (nlst or a size query raised),
\* the durable rows are those the pass began with and no deletion and no
\* transfer was attempted.
C10_FatalListingFailure ==
    (pc = "finally" /\ err = "listing")
    => /\ disk = startDisk
       /\ delTried = {}
       /\ opened = {} /\ succeeded = {} /\ failed = {}
       /\ rows = <<>>

\* C10 witness: the listing failed after some entries had been written
\* through the connection.
C10_Witness ==
    pc = "finally" /\ err = "listing" /\ db # disk

\* The step is the deletion of the local file of row k by the deletion loop
\* of mirror_ftp_directory.
RemovesLocalFile(k) ==
    /\ pc = "mirror_delete"
    /\ rows[i].video_id = k
    /\ k.text \in DOMAIN localDir
    /\ k.text \notin DOMAIN localDir'

\* C11: a row leaves the store only in a step of the deletion loop of
\* mirror_ftp_directory that removes the row's local file, and only when the
\* row's status is DELETED.  (Through the connection a row also disappears
\* when conn.close() drops an insert that was never committed; such a row
\* never was in the durable store.)
C11_RemovalOnlyAfterLocalDelete ==
    [][(\A k \in DOMAIN disk :
            k \notin DOMAIN disk'
            => RemovesLocalFile(k) /\ disk[k].video_status = DELETED)
       /\
       (\A k \in DOMAIN db :
            k \notin DOMAIN db'
            => \/ RemovesLocalFile(k) /\ db[k].video_status = DELETED
               \/ pc = "finally" /\ k \notin DOMAIN disk)]_vars

\* C11 witness: a row the pass began with is gone from the store, its
\* deletion was attempted and its local file is gone.
C11_Witness ==
    \E k \in DOMAIN startDisk :
        /\ k \notin DOMAIN disk
        /\ k \in delTried
        /\ k.text \notin DOMAIN localDir

\* Row k was DELETED in the store when the pass began and the listing of the
\* pass has its file again.
Reappeared(k) ==
    /\ k \in DOMAIN startDisk
    /\ startDisk[k].video_status = DELETED
    /\ k.text \in DOMAIN remote_files

\* C12 (as claimed): after scan_remote and scan_local a row that was DELETED
\* before the pass and whose file is listed again is UPDATED or
\* NOT_DOWNLOADED, and no deletion is planned or attempted for a listed file.
C12_ReappearedIsPulled ==
    /\ Reconciled
       => \A k \in Keys :
             /\ Reappeared(k) => db[k].video_status \in PullStatuses
             /\ k.text \in DOMAIN remote_files
                => \A j \in 1..Len(PlanFor(k)) : PlanFor(k)[j][1] # "Delete"
    /\ \A k \in delTried : k.text \notin DOMAIN remote_files

\* In table d2, which follows table d1, the DELETED rows were DELETED or
\* DOWNLOADED in d1.
DeletedFromDownloaded(d1, d2) ==
    \A k \in DOMAIN d2 :
        d2[k].video_status = DELETED
        => /\ k \in DOMAIN d1
           /\ d1[k].video_status \in {DOWNLOADED, DELETED}

\* C13: a row becomes DELETED only from DOWNLOADED, and no row is created
\* DELETED, in the store and as seen through the connection (where closing
\* the connection brings back the committed rows).
C13_DeletedOnlyFromDownloaded ==
    [][/\ DeletedFromDownloaded(disk, disk')
       /\ db' # disk' => DeletedFromDownloaded(db, db')]_vars

\* C13 witness: scan_remote has marked a row DELETED that was DOWNLOADED
\* when the pass began.
C13_Witness ==
    /\ pc = "scan_local"
    /\ \E k \in DOMAIN disk :
          /\ disk[k].video_status = DELETED
          /\ startDisk[k].video_status = DOWNLOADED

\* C14 (as claimed): a mirror run removes the DELETED rows also when their
\* local copy does not exist: when mirror_ftp_directory has returned, no
\* DELETED row of the run without a local file is left in the store.
C14_DeletedIsRemoved ==
    MirrorReturned
    => \A j \in 1..Len(rows) :
          (rows[j].video_status = DELETED
           /\ rows[j].video_id.text \notin DOMAIN localDir)
          => rows[j].video_id \notin DOMAIN disk

\* The rows of the pass whose os.remove raised: the deletion was attempted
\* and the row is still in the store.
DeleteFailed == {k \in delTried : k \in DOMAIN disk}

\* C15: a row whose os.remove raised OSError stays DELETED, in the store and
\* through the connection; and when mirror_ftp_directory has returned after
\* such a failure, os.remove was attempted for every DELETED row and a
\* transfer for every NOT_DOWNLOADED or UPDATED row.
C15_DeleteFailureIsolated ==
    /\ \A k \in DeleteFailed :
          /\ disk[k].video_status = DELETED
          /\ k \in DOMAIN db /\ db[k].video_status = DELETED
    /\ (MirrorReturned /\ DeleteFailed # {})
       => \A j \in 1..Len(rows) :
             /\ rows[j].video_status = DELETED
                => rows[j].video_id \in delTried
             /\ rows[j].video_status \in PullStatuses
                => rows[j].video_id \in succeeded \cup failed

\* C15 witness: a deletion failed, a deletion of a later row succeeded and
\* a file was transferred.
C15_Witness ==
    /\ MirrorReturned
    /\ succeeded # {}
    /\ \E j1, j2 \in 1..Len(rows) :
          /\ j1 < j2
          /\ rows[j1].video_id \in DeleteFailed
          /\ rows[j2].video_status = DELETED
          /\ rows[j2].video_id \in delTried \ DeleteFailed

\* C16 (as claimed): when Ctrl+C ended a transfer, the store has the row of
\* the file in flight as NOT_DOWNLOADED or UPDATED, and the rows of the
\* files transferred before it in the pass as DOWNLOADED.
C16_InterruptLeavesPullStatus ==
    (pc = "finally" /\ err = "KeyboardInterrupt")
    => /\ rows[i].video_id \in DOMAIN disk
       /\ disk[rows[i].video_id].video_status \in PullStatuses
       /\ \A k \in succeeded :
             k \in DOMAIN disk /\ disk[k].video_status = DOWNLOADED

\* C17: when LOCAL_DIR does not exist, scan_local raises nothing and sets
\* every row that scan_remote left DOWNLOADED to NOT_DOWNLOADED, leaving the
\* other rows alone; the pass goes on to the preview and from there to
\* mirror_ftp_directory (or ends because the operator declined).
C17_MissingLocalDir ==
    [][~dirExists
       => /\ pc = "scan_local"
             => /\ pc' = "preview" /\ err' = "none"
                /\ DOMAIN db' = DOMAIN db
                /\ \A k \in DOMAIN db :
                      db'[k] = IF db[k].video_status = DOWNLOADED
                               THEN Row(NOT_DOWNLOADED, db[k].video_remote_size)
                               ELSE db[k]
          /\ pc = "preview"
             => \/ pc' \in {"mirror_delete", "mirror_transfer"}
                \/ pc' = "finally" /\ err' \in {"none", "declined"}]_vars

\* C17 witness: LOCAL_DIR is missing and the pass is mirroring rows that
\* scan_local has reset.
C17_Witness ==
    /\ ~dirExists
    /\ pc = "mirror_transfer"
    /\ \E k \in DOMAIN disk :
          /\ disk[k].video_status = DOWNLOADED
          /\ db[k].video_status = NOT_DOWNLOADED

\* mirror_ftp_directory is running or has ended (by returning or by an
\* exception raised inside it).
Mirroring ==
    \/ pc \in {"mirror_delete", "mirror_transfer"}
    \/ pc = "finally" /\ err \in {"none", "TypeError", "KeyboardInterrupt"}

\* C18 (as claimed): wherever the process stops during mirroring, every
\* file of the listing of the pass has a row in the store whose
\* video_remote_size is the listed size.
C18_ListedFilesKeepTheirRow ==
    Mirroring
    => \A n \in DOMAIN remote_files :
          /\ video_id_affinity(n) \in DOMAIN disk
          /\ disk[video_id_affinity(n)].video_remote_size = remote_files[n]

\* C19 (as claimed): every file for which the pass attempted a transfer, or
\* opened a local file, is in the listing of the pass.
C19_TransfersTargetListedFiles ==
    \A k \in opened \cup succeeded \cup failed :
        k.text \in DOMAIN remote_files

\* C20 (as claimed): a row that is UPDATED has been DOWNLOADED at some
\* earlier time.
C20_UpdatedOnlyAfterDownloaded ==
    \A k \in DOMAIN db :
        db[k].video_status = UPDATED => k \in everDownloaded

\* Row k is UPDATED in table d2 and was not in table d1.
BecomesUpdated(d1, d2, k) ==
    /\ d2[k].video_status = UPDATED
    /\ k \in DOMAIN d1 => d1[k].video_status # UPDATED

\* scan_remote found row k of table d1 listed with another size than the
\* stored one and wrote the listed size into table d2.
ListedWithOtherSize(d1, d2, k) ==
    /\ pc = "scan_remote"
    /\ k \in DOMAIN d1
    /\ k.text \in DOMAIN remote
    /\ d1[k].video_remote_size # remote[k.text]
    /\ d2[k].video_remote_size = remote[k.text]

\* A step of the program as C20 (amended) constrains it.
C20_Step ==
    /\ \A k \in DOMAIN db' :
          BecomesUpdated(db, db', k) => ListedWithOtherSize(db, db', k)
    /\ \A k \in DOMAIN disk' :
          BecomesUpdated(disk, disk', k) => ListedWithOtherSize(disk, disk', k)
    /\ (pc = "scan_remote" /\ pc' = "scan_local")
       => \A k \in DOMAIN db :
             (k.text \in DOMAIN remote
              /\ video_id_affinity(k.text) = k
              /\ db[k].video_remote_size # remote[k.text])
             => db'[k] = Row(UPDATED, remote[k.text])

\* C20 (amended): a row becomes UPDATED exactly when scan_remote finds it
\* listed with a size that differs from its video_remote_size, whatever its
\* status is; also a row that never was DOWNLOADED.
C20_UpdatedOnSizeChange == [][C20_Step]_vars

\* C20 witness: scan_remote has set a row UPDATED that never was
\* DOWNLOADED.
C20_Witness ==
    /\ pc = "scan_local"
    /\ \E k \in DOMAIN db :
          /\ db[k].video_status = UPDATED
          /\ k \in DOMAIN startDisk
          /\ startDisk[k].video_status = NOT_DOWNLOADED
          /\ k \notin everDownloaded
====
